---- MODULE Spec2Model ----
(***************************************************************************)
(* A model of deeplearning/classifiers/fc_net.py: the classes TwoLayerNet  *)
(* and FullyConnectedNet, their constructors and their loss methods.       *)
(*                                                                         *)
(* Arrays are records [shape, v] over the integers: every value the model  *)
(* handles is a small integer, which float32 and float64 represent         *)
(* exactly.  The scalars dropout is kept in percent and the loss in half   *)
(* units (field loss2 = 2 * loss), so that 0.5 * reg * sum stays integral. *)
(* The layer primitives of deeplearning/layers.py and layer_utils.py are   *)
(* modelled from their documented contracts.                               *)
(***************************************************************************)
EXTENDS Integers, Sequences, FiniteSets, TLC

VARIABLES self, args, pc, fr, calls, ret

vars == <<self, args, pc, fr, calls, ret>>

(* ------------------------------ bounds -------------------------------- *)

MaxHidden == 2
MaxWidth == 2
MaxBatch == 2

\* Layer widths a caller may hand to a constructor: valid ones, zero and a
\* negative one.
Widths == -1..MaxWidth
\* dropout in percent: a negative value, "no dropout" and a valid strength.
DropoutVals == {-50, 0, 50}
\* L2 regularization strengths
RegVals == {0, 1}
\* the state of numpy's global generator when a constructor is called
RngStates == {0}

(* --------------------------- Python values ---------------------------- *)

None == [none |-> TRUE]
Some(v) == [val |-> v]
IsNone(v) == "none" \in DOMAIN v

\* d[k] = v on a dict
DictSet(d, k, v) == [z \in DOMAIN d \cup {k} |-> IF z = k THEN v ELSE d[z]]
EmptyDict == <<>>

\* range(a, b) and reversed(...)
Range(a, b) == [i \in 1..(IF b > a THEN b - a ELSE 0) |-> a + i - 1]
Reversed(s) == [i \in 1..Len(s) |-> s[Len(s) + 1 - i]]

\* list[k] with Python's zero-based and negative indexing; IndexError outside
PyInRange(list, k) == k \in (0 - Len(list))..(Len(list) - 1)
PyGet(list, k) == IF k >= 0 THEN list[k + 1] ELSE list[Len(list) + k + 1]

\* f"W{index}", f"b{index}"
WName(index) == "W" \o ToString(index)
bName(index) == "b" \o ToString(index)

(* ------------------------------ arrays -------------------------------- *)

Mat(r, c, f(_, _)) ==
    [shape |-> <<r, c>>, v |-> [i \in 1..r |-> [j \in 1..c |-> f(i, j)]]]
Vec(n, f(_)) == [shape |-> <<n>>, v |-> [j \in 1..n |-> f(j)]]
Rows(a) == a.shape[1]
Cols(a) == a.shape[2]

RECURSIVE SumTo(_, _)
SumTo(s, n) == IF n = 0 THEN 0 ELSE s[n] + SumTo(s, n - 1)

MatMul(a, b) ==
    Mat(Rows(a), Cols(b),
        LAMBDA i, j : SumTo([k \in 1..Cols(a) |-> a.v[i][k] * b.v[k][j]], Cols(a)))
Transpose(a) == Mat(Cols(a), Rows(a), LAMBDA i, j : a.v[j][i])
MatAdd(a, b) == Mat(Rows(a), Cols(a), LAMBDA i, j : a.v[i][j] + b.v[i][j])
Scale(k, a) == Mat(Rows(a), Cols(a), LAMBDA i, j : k * a.v[i][j])
\* np.linalg.norm(a, 'fro') ** 2
FroNormSq(a) ==
    SumTo([i \in 1..Rows(a) |->
              SumTo([j \in 1..Cols(a) |-> a.v[i][j] * a.v[i][j]], Cols(a))],
          Rows(a))

\* numpy refuses a negative dimension (ValueError)
NegativeDim(shape) == \E i \in 1..Len(shape) : shape[i] < 0

\* np.zeros(shape) for a vector
Zeros(n) == Vec(n, LAMBDA j : 0)

\* np.random.normal(0, scale, shape): numpy's generator is a function of its
\* state rng; the draw is kept to the three values -scale, 0, scale.
RandomNormal(rng, scale, shape) ==
    Mat(shape[1], shape[2], LAMBDA i, j : scale * (((rng + i + 2 * j) % 3) - 1))

\* a.astype(dtype): a copy rounded to the precision of dtype; integers up to
\* 2^24 are exact in float32 and larger ones round to an even integer.
Round32(x) == IF x \in (0 - 2^24)..(2^24) THEN x ELSE 2 * (x \div 2)
AsType(a) ==
    IF Len(a.shape) = 1
    THEN Vec(a.shape[1], LAMBDA j : Round32(a.v[j]))
    ELSE Mat(Rows(a), Cols(a), LAMBDA i, j : Round32(a.v[i][j]))

(* -------------------- layer primitives (contracts) -------------------- *)

\* y = x W + b; cache = (x, W, b)
affine_forward(x, w, b) ==
    LET xw == MatMul(x, w)
    IN  [out |-> Mat(Rows(xw), Cols(xw), LAMBDA i, j : xw.v[i][j] + b.v[IF b.shape[1] = 1 THEN 1 ELSE j]),
         cache |-> [x |-> x, w |-> w, b |-> b]]

\* max(0, x) elementwise; cache = the pre-activation values
relu_forward(x) ==
    [out |-> Mat(Rows(x), Cols(x), LAMBDA i, j : IF x.v[i][j] > 0 THEN x.v[i][j] ELSE 0),
     cache |-> x]

affine_relu_forward(x, w, b) ==
    LET fc == affine_forward(x, w, b)
        r == relu_forward(fc.out)
    IN  [out |-> r.out, cache |-> [fc_cache |-> fc.cache, relu_cache |-> r.cache]]

\* (dx, dW, db) of y = x W + b
affine_backward(dout, cache) ==
    [dx |-> MatMul(dout, Transpose(cache.w)),
     dw |-> MatMul(Transpose(cache.x), dout),
     db |-> Vec(Cols(dout),
                LAMBDA j : SumTo([i \in 1..Rows(dout) |-> dout.v[i][j]], Rows(dout)))]

\* zero gradient where the forward pre-activation was <= 0
relu_backward(dout, cache) ==
    Mat(Rows(dout), Cols(dout),
        LAMBDA i, j : IF cache.v[i][j] > 0 THEN dout.v[i][j] ELSE 0)

affine_relu_backward(dout, cache) ==
    affine_backward(relu_backward(dout, cache.relu_cache), cache.fc_cache)

\* (loss, dscores) of the softmax cross-entropy.  The exponentials are not
\* computed: dscores is the gradient at uniform probabilities,
\* (1/C - [j = y_i]) / N, in units of 1 / (N * C), so it is negative at the
\* labelled class, positive elsewhere and every row sums to zero; the loss is
\* kept as a positive number of the same unit.
softmax_loss(scores, y) ==
    [loss |-> Cols(scores),
     dx |-> Mat(Rows(scores), Cols(scores),
                LAMBDA i, j : IF j - 1 = y[i] THEN 1 - Cols(scores) ELSE 1)]

(* ----------------------------- constructors --------------------------- *)

HiddenDimsSet == UNION {[1..n -> Widths] : n \in 0..MaxHidden}
SeedVals == {None, Some(0)}

NoObject == [cls |-> "none"]
\* the locals of a loss call before any of them is assigned
NoFrame ==
    [X |-> None, y |-> None, mode |-> "unset", cache_list |-> <<>>,
     output |-> None, scores |-> None, iter |-> <<>>, dout |-> None,
     grads |-> None, loss2 |-> 0]

\* TwoLayerNet.__init__: np.random.normal / np.zeros raise on a negative size
TwoLayerRaises(input_dim, hidden_dim, num_classes) ==
    \/ NegativeDim(<<input_dim, hidden_dim>>)
    \/ NegativeDim(<<hidden_dim, num_classes>>)

TwoLayerParams(input_dim, hidden_dim, num_classes, rng) ==
    [W1 |-> RandomNormal(rng + 1, 1, <<input_dim, hidden_dim>>),
     b1 |-> Zeros(hidden_dim),
     W2 |-> RandomNormal(rng + 2, 1, <<hidden_dim, num_classes>>),
     b2 |-> Zeros(num_classes)]

ConstructTwoLayer ==
    /\ pc = "new"
    /\ \E input_dim \in Widths, hidden_dim \in Widths, num_classes \in Widths,
          reg \in RegVals, rng \in RngStates :
          /\ args' = [cls |-> "TwoLayerNet", hidden_dims |-> <<hidden_dim>>,
                      input_dim |-> input_dim, num_classes |-> num_classes,
                      dropout |-> 0]
          /\ IF TwoLayerRaises(input_dim, hidden_dim, num_classes)
             THEN /\ pc' = "raised"
                  /\ self' = NoObject
             ELSE /\ pc' = "idle"
                  /\ self' = [cls |-> "TwoLayerNet",
                              params |-> TwoLayerParams(input_dim, hidden_dim,
                                                        num_classes, rng),
                              reg |-> reg]
    /\ UNCHANGED <<fr, calls, ret>>

\* the shape of W{index} (lines 147-155) and of b{index} (lines 158-163)
WShape(index, num_layers, hidden_dims, input_dim, num_classes) ==
    IF index = 1
    THEN <<input_dim, PyGet(hidden_dims, index - 1)>>
    ELSE IF index = num_layers
         THEN <<PyGet(hidden_dims, index - 2), num_classes>>
         ELSE <<PyGet(hidden_dims, index - 2), PyGet(hidden_dims, index - 1)>>

bShape(index, num_layers, hidden_dims, num_classes) ==
    IF index = num_layers
    THEN <<num_classes>>
    ELSE <<PyGet(hidden_dims, index - 1)>>

\* the subscripts of hidden_dims one iteration of the loop evaluates
HiddenRefs(index, num_layers) ==
    (IF index = 1
     THEN {index - 1}
     ELSE IF index = num_layers THEN {index - 2} ELSE {index - 2, index - 1})
    \cup (IF index = num_layers THEN {} ELSE {index - 1})

\* one iteration raises: IndexError on hidden_dims, or numpy's ValueError
IterRaises(index, num_layers, hidden_dims, input_dim, num_classes) ==
    \/ \E k \in HiddenRefs(index, num_layers) : ~PyInRange(hidden_dims, k)
    \/ NegativeDim(WShape(index, num_layers, hidden_dims, input_dim, num_classes))
    \/ NegativeDim(bShape(index, num_layers, hidden_dims, num_classes))

FullyConnectedRaises(hidden_dims, input_dim, num_classes) ==
    \E index \in 1..(1 + Len(hidden_dims)) :
        IterRaises(index, 1 + Len(hidden_dims), hidden_dims, input_dim, num_classes)

\* the loop "for index in range(1, self.num_layers + 1)" from iteration index on
RECURSIVE InitLoop(_, _, _, _, _, _, _)
InitLoop(index, params, num_layers, hidden_dims, input_dim, num_classes, rng) ==
    IF index > num_layers
    THEN params
    ELSE InitLoop(index + 1,
                  DictSet(DictSet(params, WName(index),
                                  RandomNormal(rng + index, 1,
                                      WShape(index, num_layers, hidden_dims,
                                             input_dim, num_classes))),
                          bName(index),
                          Zeros(bShape(index, num_layers, hidden_dims, num_classes)[1])),
                  num_layers, hidden_dims, input_dim, num_classes, rng)

\* "for k, v in self.params.items(): self.params[k] = v.astype(dtype)"
CastParams(params) == [k \in DOMAIN params |-> AsType(params[k])]

InitDropoutParam(dropout, seed) ==
    IF dropout > 0
    THEN IF IsNone(seed)
         THEN [mode |-> "train", p |-> dropout]
         ELSE [mode |-> "train", p |-> dropout, seed |-> seed.val]
    ELSE EmptyDict

InitBnParams(use_batchnorm, num_layers) ==
    IF use_batchnorm THEN [i \in 1..(num_layers - 1) |-> [mode |-> "train"]] ELSE <<>>

ConstructFullyConnected ==
    /\ pc = "new"
    /\ \E hidden_dims \in HiddenDimsSet, input_dim \in Widths, num_classes \in Widths,
          dropout \in DropoutVals, use_batchnorm \in BOOLEAN, reg \in RegVals,
          rng \in RngStates, seed \in SeedVals :
          /\ args' = [cls |-> "FullyConnectedNet", hidden_dims |-> hidden_dims,
                      input_dim |-> input_dim, num_classes |-> num_classes,
                      dropout |-> dropout]
          /\ IF FullyConnectedRaises(hidden_dims, input_dim, num_classes)
             THEN /\ pc' = "raised"
                  /\ self' = NoObject
             ELSE /\ pc' = "idle"
                  /\ self' = [cls |-> "FullyConnectedNet",
                              use_batchnorm |-> use_batchnorm,
                              use_dropout |-> dropout > 0,
                              reg |-> reg,
                              num_layers |-> 1 + Len(hidden_dims),
                              params |-> CastParams(
                                  InitLoop(1, EmptyDict, 1 + Len(hidden_dims),
                                           hidden_dims, input_dim, num_classes, rng)),
                              dropout_param |-> InitDropoutParam(dropout, seed),
                              bn_params |-> InitBnParams(use_batchnorm,
                                                         1 + Len(hidden_dims))]
    /\ UNCHANGED <<fr, calls, ret>>

(* ------------------- what makes a primitive raise --------------------- *)

\* x.dot(w) + b needs matching inner sizes and a bias that broadcasts
AffineForwardOK(x, w, b) ==
    /\ Len(x.shape) = 2
    /\ Cols(x) = Rows(w)
    /\ b.shape[1] \in {Cols(w), 1}

\* "x, w, b = cache" needs the 3-tuple of affine_forward
AffineBackwardOK(dout, cache) ==
    /\ "x" \in DOMAIN cache
    /\ Cols(dout) = Cols(cache.w)
    /\ Rows(dout) = Rows(cache.x)

\* "fc_cache, relu_cache = cache" needs the pair of affine_relu_forward
AffineReluBackwardOK(dout, cache) ==
    /\ "fc_cache" \in DOMAIN cache
    /\ dout.shape = cache.relu_cache.shape
    /\ AffineBackwardOK(dout, cache.fc_cache)

\* an exception leaves the call: the object stays, the locals are lost
Raise(event) ==
    /\ pc' = "idle"
    /\ ret' = [kind |-> "raise"]
    /\ calls' = Append(calls, event)
    /\ UNCHANGED <<self, args, fr>>

(* -------------------------- the callers' inputs ----------------------- *)

\* X: a batch of N rows of width d with entries in -1..1
Batch(N, d) == Mat(N, d, LAMBDA i, j : ((i * j) % 3) - 1)

\* y: absent, or one label in [0, num_classes) per row
Labels(N, num_classes) ==
    {None} \cup {Some(l) : l \in [1..N -> 0..(num_classes - 1)]}

(* ----------------------- FullyConnectedNet.loss ----------------------- *)

\* mutant: the mode no longer follows the labels
ModeOf_AlwaysTrain(y) == "train"

\* mode = 'test' if y is None else 'train'
ModeOf(y) == IF IsNone(y) THEN "test" ELSE "train"

\* "bn_param[mode] = mode": the key the mode is stored under
BnModeKey(mode) == mode

\* lines 197-201: the mode handed to the dropout and batchnorm layers
SetModes(net, mode) ==
    [net EXCEPT
        !.dropout_param = DictSet(@, "mode", mode),
        !.bn_params = IF net.use_batchnorm
                      THEN [i \in 1..Len(@) |-> DictSet(@[i], BnModeKey(mode), mode)]
                      ELSE @]

\* range(1, self.num_layers + 1) and its reversal
ForwardOrder(num_layers) == Range(1, num_layers + 1)
\* mutant: the backward loop stops short of the output layer
BackwardOrder_SkipLast(num_layers) == Reversed(Range(1, num_layers))
BackwardOrder(num_layers) == Reversed(Range(1, num_layers + 1))

\* the primitive a layer's forward and backward step call
ForwardKind(index, num_layers) ==
    IF index # num_layers THEN "affine_relu_forward" ELSE "affine_forward"
BackwardKind(index, num_layers) ==
    IF index = num_layers THEN "affine_backward" ELSE "affine_relu_backward"

\* mutant: the backward step reads the neighbouring cache
CacheSubscript_OffByOne(index) == index - 2
\* cache_list[index - 1]: the subscript the backward step reads
CacheSubscript(index) == index - 1

\* mutant: the regularization term is left out
RegGrad_NoReg(dW, reg, W) == dW
\* dW + self.reg * self.params[f'W{index}']
RegGrad(dW, reg, W) == MatAdd(dW, Scale(reg, W))

\* mutant: the two entries are written into self.params instead of grads
StoreGrads_IntoParams(net, grads, index, dW, db) ==
    [net |-> [net EXCEPT
                !.params = DictSet(DictSet(@, WName(index),
                                           MatAdd(dW, Scale(net.reg,
                                                            net.params[WName(index)]))),
                                   bName(index), db)],
     grads |-> grads]

\* lines 241-242: the two entries written for layer index; the network
\* object is left as it is
StoreGrads(net, grads, index, dW, db) ==
    [net |-> net,
     grads |-> DictSet(DictSet(grads, WName(index),
                               RegGrad(dW, net.reg, net.params[WName(index)])),
                       bName(index), db)]

\* 2 * (softmax + 0.5 * reg * sum of the squared Frobenius norms)
Loss2(softmax, reg, params, num_layers) ==
    2 * softmax
    + reg * SumTo([i \in 1..num_layers |-> FroNormSq(params[WName(i)])], num_layers)

\* lines 192-206
LossBegin ==
    /\ pc = "idle"
    /\ self.cls = "FullyConnectedNet"
    /\ \E N \in 1..MaxBatch :
       \E y \in Labels(N, args.num_classes) :
          /\ self' = SetModes(self, ModeOf(y))
          /\ fr' = [NoFrame EXCEPT !.X = AsType(Batch(N, args.input_dim)),
                                   !.y = y,
                                   !.mode = ModeOf(y),
                                   !.output = AsType(Batch(N, args.input_dim)),
                                   !.iter = ForwardOrder(self.num_layers)]
    /\ pc' = "forward"
    /\ calls' = <<>>
    /\ ret' = None
    /\ UNCHANGED args

\* one iteration of the loop of lines 208-216
ForwardStep ==
    /\ pc = "forward"
    /\ fr.iter # <<>>
    /\ LET index == Head(fr.iter)
           W == self.params[WName(index)]
           b == self.params[bName(index)]
           kind == ForwardKind(index, self.num_layers)
           event == [fn |-> kind, layer |-> index, pos |-> Len(fr.cache_list) + 1]
       IN  IF ~AffineForwardOK(fr.output, W, b)
           THEN Raise(event)
           ELSE LET res == IF kind = "affine_forward"
                           THEN affine_forward(fr.output, W, b)
                           ELSE affine_relu_forward(fr.output, W, b)
                IN  /\ fr' = [fr EXCEPT
                                !.iter = Tail(@),
                                !.output = IF index # self.num_layers THEN res.out ELSE @,
                                !.scores = IF index # self.num_layers THEN @ ELSE res.out,
                                !.cache_list = Append(@, res.cache)]
                    /\ calls' = Append(calls, event)
                    /\ UNCHANGED <<self, args, pc, ret>>

\* lines 220-221
ReturnScores ==
    /\ pc = "forward"
    /\ fr.iter = <<>>
    /\ fr.mode = "test"
    /\ ret' = [kind |-> "scores", scores |-> fr.scores]
    /\ pc' = "idle"
    /\ UNCHANGED <<self, args, fr, calls>>

\* lines 223-230, up to the loop of line 232
SoftmaxStep ==
    /\ pc = "forward"
    /\ fr.iter = <<>>
    /\ fr.mode # "test"
    /\ IF IsNone(fr.y)
       THEN Raise([fn |-> "softmax_loss"])
       ELSE   LET sm == softmax_loss(fr.scores, fr.y.val)
              IN  /\ fr' = [fr EXCEPT
                              !.grads = EmptyDict,
                              !.dout = sm.dx,
                              !.loss2 = Loss2(sm.loss, self.reg, self.params,
                                              self.num_layers),
                              !.iter = BackwardOrder(self.num_layers)]
                  /\ calls' = Append(calls, [fn |-> "softmax_loss", dx |-> sm.dx])
                  /\ pc' = "backward"
                  /\ UNCHANGED <<self, args, ret>>

\* one iteration of the loop of lines 232-242
BackwardStep ==
    /\ pc = "backward"
    /\ fr.iter # <<>>
    /\ LET index == Head(fr.iter)
           k == CacheSubscript(index)
           kind == BackwardKind(index, self.num_layers)
       IN  IF ~PyInRange(fr.cache_list, k)
           THEN Raise([fn |-> kind, layer |-> index, pos |-> 0, up |-> fr.dout])
           ELSE LET cache == PyGet(fr.cache_list, k)
                    event == [fn |-> kind, layer |-> index,
                              pos |-> IF k >= 0 THEN k + 1
                                      ELSE Len(fr.cache_list) + k + 1,
                              up |-> fr.dout]
                    ok == IF kind = "affine_backward"
                          THEN AffineBackwardOK(fr.dout, cache)
                          ELSE AffineReluBackwardOK(fr.dout, cache)
                IN  IF ~ok
                    THEN Raise(event)
                    ELSE LET res == IF kind = "affine_backward"
                                    THEN affine_backward(fr.dout, cache)
                                    ELSE affine_relu_backward(fr.dout, cache)
                             st == StoreGrads(self, fr.grads, index, res.dw, res.db)
                         IN  /\ fr' = [fr EXCEPT !.iter = Tail(@),
                                                 !.dout = res.dx,
                                                 !.grads = st.grads]
                             /\ self' = st.net
                             /\ calls' = Append(calls,
                                    [fn |-> kind, layer |-> index, pos |-> event.pos,
                                     up |-> fr.dout, dx |-> res.dx, dw |-> res.dw,
                                     db |-> res.db])
                             /\ UNCHANGED <<args, pc, ret>>

\* line 243
ReturnTraining ==
    /\ pc = "backward"
    /\ fr.iter = <<>>
    /\ ret' = [kind |-> "train", loss2 |-> fr.loss2, grads |-> fr.grads]
    /\ pc' = "idle"
    /\ UNCHANGED <<self, args, fr, calls>>

(* -------------------------- TwoLayerNet.loss -------------------------- *)
(* cache_hidden and cache_output are kept as cache_list[1] and             *)
(* cache_list[2], hidden_layer_out as output, dhidden as dout.             *)

\* dW + self.reg * self.params['W1' / 'W2']
TwoLayerRegGrad(dW, reg, W) == MatAdd(dW, Scale(reg, W))

\* the call and line 69
TwoLayerBegin ==
    /\ pc = "idle"
    /\ self.cls = "TwoLayerNet"
    /\ \E N \in 1..MaxBatch :
       \E y \in Labels(N, args.num_classes) :
          fr' = [NoFrame EXCEPT !.X = Batch(N, args.input_dim), !.y = y]
    /\ pc' = "hidden"
    /\ calls' = <<>>
    /\ ret' = None
    /\ UNCHANGED <<self, args>>

\* line 71
TwoLayerForwardHidden ==
    /\ pc = "hidden"
    /\ LET event == [fn |-> "affine_relu_forward", layer |-> 1, pos |-> 1]
       IN  IF ~AffineForwardOK(fr.X, self.params.W1, self.params.b1)
           THEN Raise(event)
           ELSE LET res == affine_relu_forward(fr.X, self.params.W1, self.params.b1)
                IN  /\ fr' = [fr EXCEPT !.output = res.out,
                                        !.cache_list = Append(@, res.cache)]
                    /\ calls' = Append(calls, event)
                    /\ pc' = "output"
                    /\ UNCHANGED <<self, args, ret>>

\* lines 72-73
TwoLayerForwardOutput ==
    /\ pc = "output"
    /\ LET event == [fn |-> "affine_forward", layer |-> 2, pos |-> 2]
       IN  IF ~AffineForwardOK(fr.output, self.params.W2, self.params.b2)
           THEN Raise(event)
           ELSE LET res == affine_forward(fr.output, self.params.W2, self.params.b2)
                IN  /\ fr' = [fr EXCEPT !.scores = res.out,
                                        !.cache_list = Append(@, res.cache)]
                    /\ calls' = Append(calls, event)
                    /\ pc' = "scored"
                    /\ UNCHANGED <<self, args, ret>>

\* lines 76-77
TwoLayerReturnScores ==
    /\ pc = "scored"
    /\ IsNone(fr.y)
    /\ ret' = [kind |-> "scores", scores |-> fr.scores]
    /\ pc' = "idle"
    /\ UNCHANGED <<self, args, fr, calls>>

\* lines 79-85
TwoLayerSoftmax ==
    /\ pc = "scored"
    /\ ~IsNone(fr.y)
    /\   LET sm == softmax_loss(fr.scores, fr.y.val)
         IN  /\ fr' = [fr EXCEPT
                         !.grads = EmptyDict,
                         !.dout = sm.dx,
                         !.loss2 = 2 * sm.loss
                                   + self.reg * (FroNormSq(self.params.W1)
                                                 + FroNormSq(self.params.W2))]
             /\ calls' = Append(calls, [fn |-> "softmax_loss", dx |-> sm.dx])
    /\ pc' = "backward_output"
    /\ UNCHANGED <<self, args, ret>>

\* lines 88-90
TwoLayerBackwardOutput ==
    /\ pc = "backward_output"
    /\ LET cache == fr.cache_list[2]
           event == [fn |-> "affine_backward", layer |-> 2, pos |-> 2, up |-> fr.dout]
       IN  IF ~AffineBackwardOK(fr.dout, cache)
           THEN Raise(event)
           ELSE LET res == affine_backward(fr.dout, cache)
                IN  /\ fr' = [fr EXCEPT
                                !.dout = res.dx,
                                !.grads = DictSet(
                                    DictSet(@, "W2",
                                            TwoLayerRegGrad(res.dw, self.reg,
                                                            self.params.W2)),
                                    "b2", res.db)]
                    /\ calls' = Append(calls,
                           [fn |-> "affine_backward", layer |-> 2, pos |-> 2,
                            up |-> fr.dout, dx |-> res.dx, dw |-> res.dw,
                            db |-> res.db])
                    /\ pc' = "backward_hidden"
                    /\ UNCHANGED <<self, args, ret>>

\* lines 92-94
TwoLayerBackwardHidden ==
    /\ pc = "backward_hidden"
    /\ LET cache == fr.cache_list[1]
           event == [fn |-> "affine_relu_backward", layer |-> 1, pos |-> 1,
                     up |-> fr.dout]
       IN  IF ~AffineReluBackwardOK(fr.dout, cache)
           THEN Raise(event)
           ELSE LET res == affine_relu_backward(fr.dout, cache)
                IN  /\ fr' = [fr EXCEPT
                                !.dout = res.dx,
                                !.grads = DictSet(
                                    DictSet(@, "W1",
                                            TwoLayerRegGrad(res.dw, self.reg,
                                                            self.params.W1)),
                                    "b1", res.db)]
                    /\ calls' = Append(calls,
                           [fn |-> "affine_relu_backward", layer |-> 1, pos |-> 1,
                            up |-> fr.dout, dx |-> res.dx, dw |-> res.dw,
                            db |-> res.db])
                    /\ pc' = "return"
                    /\ UNCHANGED <<self, args, ret>>

\* line 96
TwoLayerReturn ==
    /\ pc = "return"
    /\ ret' = [kind |-> "train", loss2 |-> fr.loss2, grads |-> fr.grads]
    /\ pc' = "idle"
    /\ UNCHANGED <<self, args, fr, calls>>

Init ==
    /\ self = NoObject
    /\ args = None
    /\ pc = "new"
    /\ fr = NoFrame
    /\ calls = <<>>
    /\ ret = None

Next ==
    \/ ConstructTwoLayer
    \/ ConstructFullyConnected
    \/ LossBegin
    \/ ForwardStep
    \/ ReturnScores
    \/ SoftmaxStep
    \/ BackwardStep
    \/ ReturnTraining
    \/ TwoLayerBegin
    \/ TwoLayerForwardHidden
    \/ TwoLayerForwardOutput
    \/ TwoLayerReturnScores
    \/ TwoLayerSoftmax
    \/ TwoLayerBackwardOutput
    \/ TwoLayerBackwardHidden
    \/ TwoLayerReturn

Spec == Init /\ [][Next]_vars

(* ------------------------------ properties ---------------------------- *)

IsFC == self.cls = "FullyConnectedNet"
IsTwoLayer == self.cls = "TwoLayerNet"
Constructed == IsFC \/ IsTwoLayer
\* the number of layers the constructor's arguments ask for
L == 1 + Len(args.hidden_dims)
\* a loss call is running or has returned; it has returned (or raised)
InCall == Constructed /\ (pc # "idle" \/ ~IsNone(ret))
Returned == Constructed /\ pc = "idle" /\ ~IsNone(ret)
ReturnedTraining == Returned /\ ret.kind = "train"
ReturnedScores == Returned /\ ret.kind = "scores"
ForwardFns == {"affine_forward", "affine_relu_forward"}
BackwardFns == {"affine_backward", "affine_relu_backward"}
CollaboratorFns ==
    {"batchnorm_forward", "batchnorm_backward", "dropout_forward", "dropout_backward"}
LayerNames == {WName(i) : i \in 1..L} \cup {bName(i) : i \in 1..L}
PositiveConfig ==
    /\ args.input_dim > 0
    /\ args.num_classes > 0
    /\ \A i \in 1..Len(args.hidden_dims) : args.hidden_dims[i] > 0
\* positive widths and a dropout strength that is not negative
ValidConfig == PositiveConfig /\ args.dropout >= 0

\* C1: a training call returns grads with exactly the keys of self.params,
\* W1..WL and b1..bL, each entry of the shape of its parameter.
C1_GradsMatchParams ==
    ReturnedTraining =>
        /\ DOMAIN ret.grads = DOMAIN self.params
        /\ DOMAIN ret.grads = LayerNames
        /\ \A name \in DOMAIN self.params :
               ret.grads[name].shape = self.params[name].shape

C1_Witness ==
    /\ ReturnedTraining
    /\ IsFC
    /\ L = 3
    /\ PositiveConfig
    /\ args.hidden_dims[1] # args.hidden_dims[2]

\* C2: once FullyConnectedNet has been constructed with a valid configuration,
\* params holds exactly W_i and b_i for i in 1..L, L = len(hidden_dims) + 1,
\* W_1 has input width input_dim, W_L output width num_classes, the output
\* width of W_i is hidden_dims[i-1] and the input width of W_{i+1}, and b_i is
\* a zero vector as long as W_i is wide.
C2_ParamsOfValidConfig ==
    (pc # "new" /\ args.cls = "FullyConnectedNet" /\ ValidConfig) =>
        /\ IsFC
        /\ self.num_layers = L
        /\ DOMAIN self.params = LayerNames
        /\ Rows(self.params[WName(1)]) = args.input_dim
        /\ Cols(self.params[WName(L)]) = args.num_classes
        /\ \A i \in 1..(L - 1) :
               /\ Cols(self.params[WName(i)]) = args.hidden_dims[i]
               /\ Cols(self.params[WName(i)]) = Rows(self.params[WName(i + 1)])
        /\ \A i \in 1..L :
               /\ self.params[bName(i)].shape = <<Cols(self.params[WName(i)])>>
               /\ \A j \in 1..Cols(self.params[WName(i)]) :
                      self.params[bName(i)].v[j] = 0

\* C3: a call without labels returns the scores right after the forward pass
\* and never runs softmax_loss, a backward step or a write to grads; a call
\* with labels starts its backward phase only after the L forward steps and
\* returns (loss, grads).
C3_CallPath ==
    InCall =>
        LET n == IF IsFC THEN self.num_layers ELSE 2
            forwardDone ==
                /\ Len(calls) >= n
                /\ \A k \in 1..n : calls[k].fn \in ForwardFns /\ calls[k].layer = k
        IN  /\ IsNone(fr.y) =>
                /\ \A k \in 1..Len(calls) : calls[k].fn \in ForwardFns
                /\ IsNone(fr.grads)
                /\ IsNone(fr.dout)
                /\ pc \in {"idle", "forward", "hidden", "output", "scored"}
                /\ Returned => /\ ret = [kind |-> "scores", scores |-> fr.scores]
                               /\ Len(calls) = n
                               /\ forwardDone
            /\ ~IsNone(fr.y) =>
                /\ \A k \in 1..Len(calls) :
                       calls[k].fn \notin ForwardFns => k > n /\ forwardDone
                /\ ~IsNone(fr.grads) => forwardDone
                /\ pc \in {"backward", "backward_output", "backward_hidden", "return"}
                       => forwardDone
                /\ Returned => /\ ret = [kind |-> "train", loss2 |-> fr.loss2,
                                        grads |-> fr.grads]
                               /\ forwardDone

\* an inference call on a three-layer network that was trained before
C3_Witness ==
    /\ Returned
    /\ IsFC
    /\ IsNone(fr.y)
    /\ L = 3
    /\ self.use_batchnorm
    /\ "train" \in DOMAIN self.bn_params[1]

\* C4: no step of a loss call changes self.params: key set, values and
\* shapes stay those the constructor left.
C4_ParamsUnchanged ==
    [][(self.cls # "none") => (self'.params = self.params)]_vars

\* a training call that followed an inference call
C4_Witness ==
    /\ ReturnedTraining
    /\ IsFC
    /\ PositiveConfig
    /\ self.reg > 0
    /\ self.use_batchnorm
    /\ "test" \in DOMAIN self.bn_params[1]

\* C5: FullyConnectedNet(hidden_dims=[]) is a valid one-layer network:
\* num_layers = 1, params = {W1 (input_dim, num_classes), b1 (num_classes,)},
\* and loss(X) returns X W1 + b1 with no ReLU.
C5_EmptyHiddenDims ==
    (pc # "new" /\ args.cls = "FullyConnectedNet" /\ args.hidden_dims = <<>>
        /\ ValidConfig) =>
        /\ IsFC
        /\ self.num_layers = 1
        /\ DOMAIN self.params = {"W1", "b1"}
        /\ self.params.W1.shape = <<args.input_dim, args.num_classes>>
        /\ self.params.b1.shape = <<args.num_classes>>
        /\ ReturnedScores =>
               ret.scores = affine_forward(fr.X, self.params.W1, self.params.b1).out

\* C6: past the mode-setting step of FullyConnectedNet.loss(X, y) the 'mode'
\* field of dropout_param and, with use_batchnorm, of every entry of bn_params
\* is 'test' when y is None and 'train' otherwise (stated for the networks
\* of a valid configuration).
C6_ModeFollowsLabels ==
    (InCall /\ IsFC /\ ValidConfig) =>
        LET mode == IF IsNone(fr.y) THEN "test" ELSE "train"
        IN  /\ self.dropout_param["mode"] = mode
            /\ self.use_batchnorm =>
                   \A i \in 1..Len(self.bn_params) : self.bn_params[i]["mode"] = mode

\* C7: a FullyConnectedNet constructor call with a negative dropout or a
\* non-positive width (hidden_dims, input_dim, num_classes) fails and leaves
\* no network object.
C7_InvalidConfigRejected ==
    (pc # "new" /\ args.cls = "FullyConnectedNet"
        /\ (args.dropout < 0 \/ ~PositiveConfig)) =>
        /\ pc = "raised"
        /\ self = NoObject

\* C8: with use_batchnorm (dropout > 0) every hidden layer's forward step
\* calls batchnorm_forward (dropout_forward) and, in a training call, its
\* backward step calls the backward counterpart; with both off neither is
\* ever called (stated for the networks of a valid configuration).
C8_CollaboratorsInvoked ==
    (Returned /\ IsFC /\ ValidConfig /\ ret.kind # "raise") =>
        LET called(fn, i) ==
                \E k \in 1..Len(calls) :
                    calls[k].fn = fn /\ calls[k].layer = i
            hidden == 1..(self.num_layers - 1)
        IN  /\ self.use_batchnorm =>
                \A i \in hidden :
                    /\ called("batchnorm_forward", i)
                    /\ ret.kind = "train" => called("batchnorm_backward", i)
            /\ self.use_dropout =>
                \A i \in hidden :
                    /\ called("dropout_forward", i)
                    /\ ret.kind = "train" => called("dropout_backward", i)
            /\ (~self.use_batchnorm /\ ~self.use_dropout) =>
                \A k \in 1..Len(calls) : calls[k].fn \notin CollaboratorFns

\* C9: in a FullyConnectedNet call the forward steps run for layers 1..L in
\* increasing order (affine_relu_forward below L, affine_forward at L), each
\* appending one cache; after softmax_loss the backward steps run for layers
\* L..1 in decreasing order, the step of layer i reads the cache the forward
\* step of layer i appended, with affine_backward at L and
\* affine_relu_backward below, and receives the gradient the step of layer
\* i + 1 returned (dscores at L); every cache is read exactly once.
C9_ForwardBackwardOrder ==
    (InCall /\ IsFC) =>
        LET n == L
            nf == IF Len(calls) < n THEN Len(calls) ELSE n
        IN  /\ Len(calls) <= 2 * n + 1
            /\ Len(fr.cache_list) = nf
            /\ \A k \in 1..Len(calls) :
                 IF k <= n
                 THEN /\ calls[k].layer = k
                      /\ calls[k].pos = k
                      /\ calls[k].fn =
                           (IF k < n THEN "affine_relu_forward" ELSE "affine_forward")
                 ELSE IF k = n + 1
                 THEN calls[k].fn = "softmax_loss"
                 ELSE LET i == 2 * n + 2 - k
                      IN  /\ calls[k].layer = i
                          /\ calls[k].pos = i
                          /\ calls[k].fn =
                               (IF i = n THEN "affine_backward"
                                         ELSE "affine_relu_backward")
                          /\ calls[k].up = calls[k - 1].dx
                          /\ "dx" \in DOMAIN calls[k]
            /\ ReturnedTraining =>
                 \A p \in 1..n :
                     Cardinality({k \in 1..Len(calls) :
                                     calls[k].fn \in BackwardFns /\ calls[k].pos = p}) = 1

C9_Witness ==
    /\ ReturnedTraining
    /\ IsFC
    /\ L = 3
    /\ PositiveConfig

\* C10: for every layer whose backward step has run, grads[W_i] is the dW_i
\* that step returned plus reg * W_i, and grads[b_i] is the db_i it returned;
\* with reg = 0, grads[W_i] = dW_i.  Both classes.
C10_RegularizedGrads ==
    InCall =>
        /\ \A k \in 1..Len(calls) :
             (calls[k].fn \in BackwardFns /\ "dw" \in DOMAIN calls[k]) =>
                LET i == calls[k].layer
                    W == self.params[WName(i)]
                    g == fr.grads[WName(i)]
                IN  /\ g.shape = W.shape
                    /\ \A r \in 1..Rows(W) : \A c \in 1..Cols(W) :
                           g.v[r][c] = calls[k].dw.v[r][c] + self.reg * W.v[r][c]
                    /\ fr.grads[bName(i)] = calls[k].db
                    /\ self.reg = 0 => g = calls[k].dw
        /\ ReturnedTraining => ret.grads = fr.grads

C10_Witness ==
    /\ ReturnedTraining
    /\ IsFC
    /\ self.reg = 1
    /\ \E k \in 1..Len(calls) :
          /\ calls[k].fn = "affine_relu_backward"
          /\ ret.grads[WName(calls[k].layer)] # calls[k].dw
          /\ \E r \in 1..Rows(calls[k].dw) : \E c \in 1..Cols(calls[k].dw) :
                 calls[k].dw.v[r][c] # 0

====
